---- MODULE Spec2Model ----
(***************************************************************************)
(* A model of the dice roller in src/main.rs: the notation parser          *)
(* (Dice::from_str), descriptor construction (Dice::new), rolling          *)
(* (Dice::roll), the aggregate arms and the output loop of main.           *)
(*                                                                         *)
(* A token is a sequence of characters, each character a one-element       *)
(* string.  A u32 is held as two 16-bit limbs <<hi, lo>> (value            *)
(* hi * 65536 + lo), so that the values around 2^32 the program can meet   *)
(* are represented exactly; a "wide" number is the same pair with hi       *)
(* allowed past 65535, used for mathematically exact results.              *)
(*                                                                         *)
(* Spec runs main from the command line on, and takes every outcome of a   *)
(* roll for the dice within MaxCount and MaxDrawn.  SpecArms starts where   *)
(* d.roll() has returned, with vectors of rolls of dice of up to            *)
(* 4294967294 sides, and runs the aggregate arms and the println on them.   *)
(***************************************************************************)
EXTENDS Integers, Sequences, FiniteSets, TLC

\* The largest batch of tokens on the command line.
MaxTokens == 2
\* The largest count of a die the model rolls.
MaxCount == 3
\* The most values a roll may draw from for the model to take all its outcomes.
MaxDrawn == 6

----------------------------------------------------------------------------
(* Unsigned 32-bit arithmetic on limbs *)

\* The limb base: a u32 is two 16-bit limbs.
Base == 65536

\* The wide number of a small natural.
W(n) == <<n \div Base, n % Base>>

\* u32::MAX, 4294967295.
U32Max == <<Base - 1, Base - 1>>

FitsU32(w) == w[1] < Base

WLt(a, b) == a[1] < b[1] \/ (a[1] = b[1] /\ a[2] < b[2])

WLe(a, b) == a = b \/ WLt(a, b)

WAdd(a, b) ==
    LET lo == a[2] + b[2]
    IN  <<a[1] + b[1] + (lo \div Base), lo % Base>>

\* a - b, for b <= a.
WSub(a, b) ==
    LET borrow == IF a[2] < b[2] THEN 1 ELSE 0
    IN  <<a[1] - b[1] - borrow, a[2] + borrow * Base - b[2]>>

\* w * k + d for a small k and d.
WMulAdd(w, k, d) ==
    LET lo == w[2] * k + d
    IN  <<w[1] * k + (lo \div Base), lo % Base>>

\* The value modulo 2^32: what a wrapping u32 operation keeps.
Wrap32(w) == <<w[1] % Base, w[2]>>

RECURSIVE Pow2(_)
Pow2(k) == IF k = 0 THEN 1 ELSE 2 * Pow2(k - 1)

\* The number of significant bits of a small natural.
RECURSIVE BitLen(_)
BitLen(n) == IF n = 0 THEN 0 ELSE 1 + BitLen(n \div 2)

WBitLen(w) == IF w[1] > 0 THEN 16 + BitLen(w[1]) ELSE BitLen(w[2])

\* floor(w / 2^k) as a small natural, for 0 <= k <= 16 and a result below 2^31.
WShr(w, k) == w[1] * Pow2(16 - k) + (w[2] \div Pow2(k))

\* w mod 2^k, for 0 <= k <= 16.
WLowBits(w, k) == w[2] % Pow2(k)

\* The element of a one-element set.  A recursive operator takes its next
\* argument as the bound variable of such a set, which holds a computed value.
Only(S) == CHOOSE x \in S : TRUE

\* Hexadecimal digit j of w, counted from the lowest; 0 below the lowest.
Nibble(w, j) ==
    IF j < 0 THEN 0
    ELSE IF j >= 4 THEN (w[1] \div Pow2(4 * j - 16)) % 16
    ELSE (w[2] \div Pow2(4 * j)) % 16

\* One step of long division by b in base 16: st is <<quotient, remainder>> so
\* far and digit the next digit of the dividend.
DivStep(st, digit, b) ==
    LET r2 == WMulAdd(st[2], 16, digit)
        d  == CHOOSE c \in 0..15 : WLe(WMulAdd(b, c, 0), r2) /\ WLt(r2, WMulAdd(b, c + 1, 0))
    IN  <<WMulAdd(st[1], 16, d), WSub(r2, WMulAdd(b, d, 0))>>

RECURSIVE LongDivFrom(_, _, _, _, _)
LongDivFrom(a, b, j, low, st) ==
    IF j < low THEN [q |-> st[1], r |-> st[2]]
    ELSE Only({LongDivFrom(a, b, j - 1, low, next) : next \in {DivStep(st, Nibble(a, j), b)}})

\* Quotient and remainder of a * 16^k by b, for b > 0.
LongDiv(a, b, k) == LongDivFrom(a, b, (WBitLen(a) + 3) \div 4 - 1, 0 - k, <<W(0), W(0)>>)

----------------------------------------------------------------------------
(* Characters and decimal text *)

AsciiDigit == {"0", "1", "2", "3", "4", "5", "6", "7", "8", "9"}

\* A decimal digit that is not ASCII: U+0663, ARABIC-INDIC DIGIT THREE.  The
\* regex class \d is Unicode-aware (\p{Nd}) and matches it; u32's FromStr
\* accepts the ASCII digits only.
UnicodeDigit == {"U+0663"}

\* char::to_digit(10) on an ASCII digit.
DigitVal(c) ==
    CASE c = "0" -> 0 [] c = "1" -> 1 [] c = "2" -> 2 [] c = "3" -> 3
      [] c = "4" -> 4 [] c = "5" -> 5 [] c = "6" -> 6 [] c = "7" -> 7
      [] c = "8" -> 8 [] c = "9" -> 9

DigitChar(n) == CHOOSE c \in AsciiDigit : DigitVal(c) = n

\* The suffix of s from position i on.
Drop(s, i) == SubSeq(s, i, Len(s))

\* <u32 as FromStr>::from_str on text without a sign: the digits are taken left
\* to right with checked_mul(10) and checked_add(digit).
RECURSIVE ParseU32From(_, _, _)
ParseU32From(s, i, acc) ==
    IF i > Len(s) THEN [ok |-> TRUE, val |-> acc, err |-> ""]
    ELSE IF s[i] \notin AsciiDigit
         THEN [ok |-> FALSE, val |-> W(0), err |-> "InvalidDigit"]
    ELSE Only({IF FitsU32(next) THEN ParseU32From(s, i + 1, next)
               ELSE [ok |-> FALSE, val |-> W(0), err |-> "PosOverflow"] :
                   next \in {WMulAdd(acc, 10, DigitVal(s[i]))}})

ParseU32(s) ==
    IF s = <<>> THEN [ok |-> FALSE, val |-> W(0), err |-> "Empty"]
    ELSE ParseU32From(s, 1, W(0))

\* <<floor(w / 10), w mod 10>>
DivMod10(w) ==
    LET mid == (w[1] % 10) * Base + w[2]
    IN  <<<<(w[1] \div 10) + ((mid \div 10) \div Base), (mid \div 10) % Base>>, mid % 10>>

\* <u32 as Display>::fmt: the decimal digits, no leading zero, "0" for zero.
RECURSIVE ToDecimal(_)
ToDecimal(w) ==
    Only({IF qd[1] = W(0) THEN <<DigitChar(qd[2])>>
          ELSE ToDecimal(qd[1]) \o <<DigitChar(qd[2])>> : qd \in {DivMod10(w)}})

----------------------------------------------------------------------------
(* f32 *)

\* The bits of an f32 significand.
MantissaBits == 24

\* An f32 is [m, e], the value m * 2^e, with 2^23 <= m < 2^24, or m = e = 0.
F32Zero == [m |-> 0, e |-> 0]

\* m + 1 renormalised when it reaches 2^24.
F32Carry(m, e) ==
    IF m = Pow2(MantissaBits) THEN [m |-> Pow2(MantissaBits - 1), e |-> e + 1]
    ELSE [m |-> m, e |-> e]

\* The integer w, with sticky telling that a nonzero fraction follows it, rounded
\* to the nearest f32, ties to even.
RoundToF32(w, sticky) ==
    LET n == WBitLen(w)
    IN  IF n = 0 THEN F32Zero
        ELSE IF n <= MantissaBits
             THEN [m |-> WShr(w, 0) * Pow2(MantissaBits - n), e |-> n - MantissaBits]
        ELSE LET shift == n - MantissaBits
                 m     == WShr(w, shift)
                 low   == WLowBits(w, shift)
                 half  == Pow2(shift - 1)
                 up    == low > half \/ (low = half /\ (sticky \/ m % 2 = 1))
             IN  F32Carry(IF up THEN m + 1 ELSE m, shift)

\* `x as f32` for a u32 x.
AsF32(w) == RoundToF32(w, FALSE)

\* The integer an integer-valued f32 holds.
F32ToWide(f) ==
    IF f.e >= 0
    THEN <<f.m \div Pow2(16 - f.e), (f.m % Pow2(16 - f.e)) * Pow2(f.e)>>
    ELSE W(f.m \div Pow2(0 - f.e))

\* The bits a quotient is computed to before it is rounded to 24.
GuardedBits == MantissaBits + 2

\* x / y on f32 for integer-valued x and y, y nonzero: the exact quotient
\* rounded to the nearest f32.  The quotient is taken to at least 26 bits by long
\* division of a * 16^k by b; the remainder tells whether more follows.
F32Div(x, y) ==
    LET a    == F32ToWide(x)
        b    == F32ToWide(y)
        have == WBitLen(a) - WBitLen(b)
        k    == IF have >= GuardedBits THEN 0 ELSE (GuardedBits - have + 3) \div 4
    IN  IF a = W(0) THEN F32Zero
        ELSE Only({[m |-> f.m, e |-> f.e - 4 * k] :
                      f \in {RoundToF32(dm.q, dm.r # W(0)) : dm \in {LongDiv(a, b, k)}}})

----------------------------------------------------------------------------
(* The notation parser: impl FromStr for Dice, and Dice::new *)

\* What a call returns, or that it panicked.
Ok(count, sides) == [kind |-> "Ok", count |-> count, sides |-> sides, msg |-> ""]

Err(msg) == [kind |-> "Err", count |-> W(0), sides |-> W(0), msg |-> msg]

Panic(msg) == [kind |-> "Panic", count |-> W(0), sides |-> W(0), msg |-> msg]

\* The class \d of the regex crate: any Unicode decimal digit.
IsRegexDigit(c) == c \in AsciiDigit \cup UnicodeDigit

\* The end of the run of \d that starts at position i of s.
RECURSIVE DigitRun(_, _)
DigitRun(s, i) ==
    IF i <= Len(s) /\ IsRegexDigit(s[i]) THEN DigitRun(s, i + 1) ELSE i

\* DIE_REGEX.captures(s): an anchored match of a possibly empty run of digits
\* (group count), the letter d, and a run of one or more digits (group sides).
\* The letter d is no digit, so the count group is the whole leading run.
DIE_REGEX(s) ==
    LET k == DigitRun(s, 1)
        matched == /\ k <= Len(s)
                   /\ s[k] = "d"
                   /\ k + 1 <= Len(s)
                   /\ DigitRun(s, k + 1) = Len(s) + 1
    IN  IF matched
        THEN [matched |-> TRUE, count |-> SubSeq(s, 1, k - 1), sides |-> Drop(s, k + 1)]
        ELSE [matched |-> FALSE, count |-> <<>>, sides |-> <<>>]

\* CountOf without the default: an empty count group is parsed like any other.
CountOf_NoDefault(captures) == ParseU32(captures.count)

\* The count of a matched token: 1 for an empty group, else the group parsed.
CountOf(captures) ==
    IF captures.count = <<>> THEN [ok |-> TRUE, val |-> W(1), err |-> ""]
    ELSE ParseU32(captures.count)

\* CountTooSmall left out: no count is rejected.
CountTooSmall_Never(count) == FALSE

\* The test count < 1 that rejects a count.
CountTooSmall(count) == WLt(count, W(1))

\* Dice::new
Dice_new(count, sides) ==
    IF count = W(0) THEN Panic("count must be greater than 0")
    ELSE IF sides = W(0) THEN Panic("sides must be greater than 0")
    ELSE Ok(count, sides)

\* The sides of a matched token: the group parsed and unwrapped.
SidesOf(captures) == ParseU32(captures.sides)

\* <Dice as FromStr>::from_str
Dice_from_str(s) ==
    LET captures == DIE_REGEX(s)
        count    == CountOf(captures)
        sides    == SidesOf(captures)
    IN  IF ~captures.matched THEN Err("regex failed to capture")
        ELSE IF ~count.ok THEN Err("invalid count")
        ELSE IF CountTooSmall(count.val) THEN Err("count must be at least 1")
        ELSE IF ~sides.ok THEN Panic("called Result::unwrap() on an Err value")
        ELSE Dice_new(count.val, sides.val)

\* <Dice as Display>::fmt
Dice_fmt(d) == ToDecimal(d.count) \o <<"d">> \o ToDecimal(d.sides)

----------------------------------------------------------------------------
(* The aggregate selector: impl FromStr for Aggregate *)

LowerAscii ==
    <<"a", "b", "c", "d", "e", "f", "g", "h", "i", "j", "k", "l", "m",
      "n", "o", "p", "q", "r", "s", "t", "u", "v", "w", "x", "y", "z">>

UpperAscii ==
    <<"A", "B", "C", "D", "E", "F", "G", "H", "I", "J", "K", "L", "M",
      "N", "O", "P", "Q", "R", "S", "T", "U", "V", "W", "X", "Y", "Z">>

\* Characters of the model's alphabet that have no other uppercase form.
Uncased ==
    {UpperAscii[k] : k \in 1..26} \cup AsciiDigit \cup UnicodeDigit
        \cup {"-", ".", " ", "+", "LF"}

\* char::to_uppercase, the Unicode mapping, on the model's alphabet: the
\* characters one uppercase character maps to, which are two for U+00DF (sharp
\* s).  U+017F is the long s, U+0131 the dotless i, U+00E9 e with acute.  The
\* mapping is not defined here outside the alphabet.
ToUpper(c) ==
    CASE \E k \in 1..26 : LowerAscii[k] = c ->
             <<UpperAscii[CHOOSE k \in 1..26 : LowerAscii[k] = c]>>
      [] c = "U+017F" -> <<"S">>
      [] c = "U+0131" -> <<"I">>
      [] c = "U+00DF" -> <<"S", "S">>
      [] c = "U+00E9" -> <<"U+00C9">>
      [] c = "U+00C9" -> <<"U+00C9">>
      [] c \in Uncased -> <<c>>

\* str::to_uppercase: the uppercase forms of the characters, joined.
RECURSIVE to_uppercase(_)
to_uppercase(s) ==
    IF s = <<>> THEN <<>> ELSE ToUpper(Head(s)) \o to_uppercase(Tail(s))

\* <Aggregate as FromStr>::from_str: the selector, or "Err".
Aggregate_from_str(s) ==
    LET u == to_uppercase(s)
    IN  CASE u = <<"S", "U", "M">> -> "Sum"
          [] u = <<"A", "V", "G">> -> "Avg"
          [] u = <<"M", "A", "X">> -> "Max"
          [] u = <<"M", "I", "N">> -> "Min"
          [] OTHER -> "Err"

----------------------------------------------------------------------------
(* Rolling: Dice::roll *)

\* Whether the build checks integer overflow (debug) or wraps (release).
Profiles == {"debug", "release"}

\* a + b on u32: a panic under overflow checks, the wrapped sum without them.
AddU32(a, b, profile) ==
    LET sum == WAdd(a, b)
    IN  IF FitsU32(sum) THEN [ok |-> TRUE, val |-> sum]
        ELSE IF profile = "debug" THEN [ok |-> FALSE, val |-> W(0)]
        ELSE [ok |-> TRUE, val |-> Wrap32(sum)]

\* Every u32 of [low, high), for low < high.
Between(low, high) ==
    IF low[1] = high[1] THEN {<<low[1], l>> : l \in low[2]..(high[2] - 1)}
    ELSE {v \in (low[1]..high[1]) \X (0..(Base - 1)) : WLe(low, v) /\ WLt(v, high)}

\* rng.gen_range(low, high): it asserts low < high and returns any value of
\* [low, high).
gen_range(low, high) ==
    IF WLt(low, high) THEN [ok |-> TRUE, vals |-> Between(low, high)]
    ELSE [ok |-> FALSE, vals |-> {}]

\* The count of a die as a number the model can count to.
Small(w) == w[1] * Base + w[2]

IsSmall(w) == w[1] = 0 /\ w[2] <= MaxCount

\* Whether the model rolls the die: its count is at most MaxCount and the range
\* it draws from, when the call gets as far as drawing, has at most MaxDrawn
\* values.
RollIsBounded(d, profile) ==
    /\ IsSmall(d.count)
    /\ LET high == AddU32(d.sides, W(1), profile)
       IN  high.ok => WLe(high.val, W(MaxDrawn + 1))

\* Dice::roll: what the call can return, each a vector of count values or a panic.
Dice_roll(d, profile) ==
    LET high == AddU32(d.sides, W(1), profile)
        draw == gen_range(W(1), high.val)
    IN  IF ~high.ok THEN {[ok |-> FALSE, rolls |-> <<>>, msg |-> "attempt to add with overflow"]}
        ELSE IF ~draw.ok
             THEN {[ok |-> FALSE, rolls |-> <<>>, msg |-> "gen_range called with low >= high"]}
        ELSE {[ok |-> TRUE, rolls |-> r, msg |-> ""] : r \in [1..Small(d.count) -> draw.vals]}

----------------------------------------------------------------------------
(* The aggregate arms of main *)

\* rolls.iter().sum::<u32>(): a left fold with +.
RECURSIVE SumFrom(_, _, _, _)
SumFrom(rolls, i, acc, profile) ==
    IF i > Len(rolls) THEN [ok |-> TRUE, val |-> acc]
    ELSE Only({IF next.ok THEN SumFrom(rolls, i + 1, next.val, profile) ELSE next :
                  next \in {AddU32(acc, rolls[i], profile)}})

sum_u32(rolls, profile) == SumFrom(rolls, 1, W(0), profile)

\* rolls.iter().max(): None for an empty vector.
iter_max(rolls) ==
    IF rolls = <<>> THEN [some |-> FALSE, val |-> W(0)]
    ELSE [some |-> TRUE,
          val |-> CHOOSE v \in {rolls[k] : k \in 1..Len(rolls)} :
                      \A k \in 1..Len(rolls) : WLe(rolls[k], v)]

\* rolls.iter().min(): None for an empty vector.
iter_min(rolls) ==
    IF rolls = <<>> THEN [some |-> FALSE, val |-> W(0)]
    ELSE [some |-> TRUE,
          val |-> CHOOSE v \in {rolls[k] : k \in 1..Len(rolls)} :
                      \A k \in 1..Len(rolls) : WLe(v, rolls[k])]

\* The elements after the first of a Vec<u32> under {:?}, each after ", ".
RECURSIVE DebugTail(_, _)
DebugTail(rolls, i) ==
    IF i > Len(rolls) THEN <<>>
    ELSE <<",", " ">> \o ToDecimal(rolls[i]) \o DebugTail(rolls, i + 1)

\* format!("{:?}", rolls) for a Vec<u32>: [a, b, c].
fmt_debug(rolls) ==
    IF rolls = <<>> THEN <<"[", "]">>
    ELSE <<"[">> \o ToDecimal(rolls[1]) \o DebugTail(rolls, 2) \o <<"]">>

\* What the match on opts.aggregate formats, or that it panicked.  An f32 is kept
\* as the value that {} renders (the shortest decimal text that reads back as
\* exactly this f32); the other arms give their text.
Formatted(text) == [kind |-> "text", text |-> text, f32 |-> F32Zero]

FormattedF32(f) == [kind |-> "f32", text |-> <<>>, f32 |-> f]

FormatPanic(msg) == [kind |-> "panic", text |-> <<>>, f32 |-> F32Zero]

ArmNone(rolls) == Formatted(fmt_debug(rolls))

ArmSum(rolls, profile) ==
    LET s == sum_u32(rolls, profile)
    IN  IF s.ok THEN Formatted(ToDecimal(s.val))
        ELSE FormatPanic("attempt to add with overflow")

ArmAvg(rolls, d, profile) ==
    LET s == sum_u32(rolls, profile)
    IN  IF s.ok THEN FormattedF32(F32Div(AsF32(s.val), AsF32(d.count)))
        ELSE FormatPanic("attempt to add with overflow")

ArmMax(rolls) ==
    LET m == iter_max(rolls)
    IN  IF m.some THEN Formatted(ToDecimal(m.val))
        ELSE FormatPanic("called aggregate max on empty iter")

ArmMin(rolls) ==
    LET m == iter_min(rolls)
    IN  IF m.some THEN Formatted(ToDecimal(m.val))
        ELSE FormatPanic("called aggregate min on empty iter")

AggregateMatch(aggregate, rolls, d, profile) ==
    CASE aggregate = "None" -> ArmNone(rolls)
      [] aggregate = "Sum" -> ArmSum(rolls, profile)
      [] aggregate = "Avg" -> ArmAvg(rolls, d, profile)
      [] aggregate = "Max" -> ArmMax(rolls)
      [] aggregate = "Min" -> ArmMin(rolls)

\* println!("{} {}", d, ...): the die, a space, the formatted result.
Line(d, formatted) ==
    [text |-> Dice_fmt(d) \o <<" ">> \o formatted.text,
     kind |-> formatted.kind,
     f32 |-> formatted.f32]

----------------------------------------------------------------------------
(* The command lines the model runs *)

TenDigits(a, b) == <<"4", "2", "9", "4", "9", "6", "7", "2", a, b>>

\* 4294967295, the largest u32, its neighbours, and 16777217 = 2^24 + 1.
MaxText == TenDigits("9", "5")

BelowMaxText == TenDigits("9", "4")

OverMaxText == TenDigits("9", "6")

Pow24PlusOneText == <<"1", "6", "7", "7", "7", "2", "1", "7">>

CountFields ==
    {<<>>, <<"0", "0">>, <<"0", "3">>, MaxText, OverMaxText, <<"U+0663">>}
        \cup {ToDecimal(W(k)) : k \in 0..(MaxCount + 1)}

SidesFields ==
    {<<"0">>, <<"1">>, <<"2">>, <<"4">>, <<"6">>, <<"0", "6">>, <<"2", "0">>,
     <<"1", "2", "0">>, Pow24PlusOneText, BelowMaxText, MaxText, OverMaxText,
     <<"U+0663">>, <<"2", "U+0663">>}

\* Every count field joined to every sides field by the letter d.
Shaped == {c \o <<"d">> \o sd : c \in CountFields, sd \in SidesFields}

\* Characters the notation has no place for ("LF" is a line feed).
Junk == {"-", ".", "D", " ", "x", "+", "LF"}

Insert(t, k, c) == SubSeq(t, 1, k - 1) \o <<c>> \o Drop(t, k)

\* Tokens with one character too many, too few or wrong.
Misshaped ==
    UNION {{Insert(t, k, c) : k \in 1..(Len(t) + 1), c \in Junk} :
               t \in {<<"5", "d", "2", "0">>, <<"d", "6">>}}
        \cup {<<>>, <<"d">>, <<"5", "d">>, <<"5">>, <<"5", "2", "0">>,
              <<"5", "D", "2", "0">>, <<"d", "d", "6">>, <<"5", "d", "2", "d", "3">>,
              <<"b", "a", "d">>}

\* The tokens a command line of several dice is drawn from.
BatchPool ==
    {<<"2", "d", "4">>, <<"d", "6">>, <<"b", "a", "d">>, <<"d">> \o MaxText}

RECURSIVE SeqsUpTo(_, _)
SeqsUpTo(S, n) ==
    IF n = 0 THEN {<<>>}
    ELSE LET shorter == SeqsUpTo(S, n - 1)
         IN  shorter \cup {Append(q, x) : q \in {r \in shorter : Len(r) = n - 1}, x \in S}

\* One token of any shape, or up to MaxTokens tokens of the batch pool.
CommandLines == {<<t>> : t \in Shaped \cup Misshaped} \cup SeqsUpTo(BatchPool, MaxTokens)

\* The --aggregate option: left out, or given with a text.
AggregateArgs ==
    {[given |-> FALSE, text |-> <<>>]}
        \cup {[given |-> TRUE, text |-> t] :
                t \in {<<"s", "u", "m">>, <<"A", "v", "g">>, <<"M", "A", "X">>,
                       <<"m", "i", "n">>, <<"m", "e", "a", "n">>,
                       <<"U+017F", "u", "m">>, <<"m", "U+0131", "n">>,
                       <<"U+00DF", "u", "m">>}}

----------------------------------------------------------------------------
(* main *)

VARIABLES
    argv,           \* the dice tokens on the command line
    aggregate_arg,  \* the --aggregate option on the command line
    profile,        \* the build profile
    pc,             \* where the process is
    aggregate,      \* opts.aggregate: "None" or the selector
    dice_coll,      \* opts.dice_coll, as far as it is parsed
    i,              \* the loop's position in dice_coll
    stdout,         \* the lines printed
    stderr,         \* the diagnostics printed
    last,           \* the token Dice::from_str was last called on, and what it gave
    rolled          \* the die last rolled, what roll gave and what was formatted

vars == <<argv, aggregate_arg, profile, pc, aggregate, dice_coll, i, stdout, stderr,
          last, rolled>>

NoDie == [count |-> W(0), sides |-> W(0)]

Init ==
    /\ argv \in CommandLines
    /\ aggregate_arg \in AggregateArgs
    /\ profile \in Profiles
    /\ pc = "option"
    /\ aggregate = "None"
    /\ dice_coll = <<>>
    /\ i = 1
    /\ stdout = <<>>
    /\ stderr = <<>>
    /\ last = [called |-> FALSE, token |-> <<>>, res |-> Err("")]
    /\ rolled = [done |-> FALSE, die |-> NoDie,
                 out |-> [ok |-> FALSE, rolls |-> <<>>, msg |-> ""],
                 fmt |-> FormatPanic("")]

\* What Opts::from_args does with the result of parsing one value: it keeps an Ok
\* value and goes on, reports an Err and exits, and a panic ends the process.
AfterParse(kind) ==
    CASE kind = "Ok" -> "args"
      [] kind = "Err" -> "exit"
      [] kind = "Panic" -> "panicked"

\* Opts::from_args, the option: opts.aggregate is None or the parsed selector.
ParseOption ==
    /\ pc = "option"
    /\ LET sel == IF aggregate_arg.given THEN Aggregate_from_str(aggregate_arg.text)
                  ELSE "None"
       IN  IF sel = "Err"
           THEN /\ pc' = "exit"
                /\ stderr' = Append(stderr, "invalid aggregate function")
                /\ UNCHANGED aggregate
           ELSE /\ pc' = "args"
                /\ aggregate' = sel
                /\ UNCHANGED stderr
    /\ UNCHANGED <<argv, aggregate_arg, profile, dice_coll, i, stdout, last, rolled>>

\* Opts::from_args, the next positional value: Dice::from_str on the token.
ParseDie ==
    /\ pc = "args"
    /\ Len(dice_coll) < Len(argv)
    /\ LET token == argv[Len(dice_coll) + 1]
           res   == Dice_from_str(token)
       IN  /\ last' = [called |-> TRUE, token |-> token, res |-> res]
           /\ pc' = AfterParse(res.kind)
           /\ dice_coll' = IF res.kind = "Ok"
                           THEN Append(dice_coll, [count |-> res.count, sides |-> res.sides])
                           ELSE dice_coll
           /\ stderr' = IF res.kind = "Err" THEN Append(stderr, "parsing die failed")
                        ELSE stderr
    /\ UNCHANGED <<argv, aggregate_arg, profile, aggregate, i, stdout, rolled>>

\* Opts::from_args returns once every value is parsed.
FromArgsReturn ==
    /\ pc = "args"
    /\ Len(dice_coll) = Len(argv)
    /\ pc' = "main"
    /\ UNCHANGED <<argv, aggregate_arg, profile, aggregate, dice_coll, i, stdout, stderr,
                   last, rolled>>

\* The test for an empty dice_coll: a diagnostic, and main goes on to the loop.
CheckEmpty ==
    /\ pc = "main"
    /\ stderr' = IF dice_coll = <<>> THEN Append(stderr, "Provide some dice to roll")
                 ELSE stderr
    /\ pc' = "loop"
    /\ UNCHANGED <<argv, aggregate_arg, profile, aggregate, dice_coll, i, stdout, last,
                   rolled>>

\* LoopReady with the loop started while values are still being parsed.
LoopReady_WhileParsing == pc \in {"loop", "args"}

\* Whether the loop over dice_coll may run its next iteration.
LoopReady == pc = "loop"

\* The rest of an iteration once roll has returned out for the die d: the match
\* on opts.aggregate formats the rolls and println! prints the line, and the
\* loop goes on.  A panic in roll or in an aggregate arm ends the process before
\* the line is printed.
MatchAndPrintln(d, out) ==
    LET fmt == IF out.ok THEN AggregateMatch(aggregate, out.rolls, d, profile)
               ELSE FormatPanic(out.msg)
    IN  /\ rolled' = [done |-> TRUE, die |-> d, out |-> out, fmt |-> fmt]
        /\ IF fmt.kind = "panic"
           THEN /\ pc' = "panicked"
                /\ UNCHANGED <<i, stdout>>
           ELSE /\ stdout' = Append(stdout, Line(d, fmt))
                /\ i' = i + 1
                /\ pc' = "loop"
        /\ UNCHANGED <<argv, aggregate_arg, profile, aggregate, dice_coll, stderr, last>>

\* One iteration of the loop: roll the die, format the result, print the line.
\* The model rolls the dice of a count up to MaxCount that draw from at most
\* MaxDrawn values, and takes every outcome of the roll.
RollAndPrint ==
    /\ LoopReady
    /\ i <= Len(dice_coll)
    /\ RollIsBounded(dice_coll[i], profile)
    /\ \E out \in Dice_roll(dice_coll[i], profile) : MatchAndPrintln(dice_coll[i], out)

\* The loop ends after the last die.
LoopEnd ==
    /\ LoopReady
    /\ i > Len(dice_coll)
    /\ pc' = "done"
    /\ UNCHANGED <<argv, aggregate_arg, profile, aggregate, dice_coll, i, stdout, stderr,
                   last, rolled>>

Next ==
    \/ ParseOption
    \/ ParseDie
    \/ FromArgsReturn
    \/ CheckEmpty
    \/ RollAndPrint
    \/ LoopEnd

Spec == Init /\ [][Next]_vars

----------------------------------------------------------------------------
(* The aggregate arms on the rolls of large dice *)

\* Dice whose rolls have too many outcomes to take them all: 4, 2^24 + 1 and
\* 4294967294 sides, each with a count up to MaxCount.
ArmTokens ==
    {ToDecimal(W(n)) \o <<"d">> \o sd :
        n \in 1..MaxCount, sd \in {<<"4">>, Pow24PlusOneText, BelowMaxText}}

\* The values a vector of rolls is made of here: small ones, 2^24 + 1 and
\* 4294967294.
ArmValues ==
    {W(1), W(2), W(3), W(4), ParseU32(Pow24PlusOneText).val, ParseU32(BelowMaxText).val}

\* Whether d.roll() can return the vector: roll gets as far as drawing, the
\* vector has count elements and each is a value gen_range can return.
CanReturn(d, prof, rolls) ==
    LET high == AddU32(d.sides, W(1), prof)
        draw == gen_range(W(1), high.val)
    IN  /\ high.ok
        /\ draw.ok
        /\ Len(rolls) = Small(d.count)
        /\ \A k \in 1..Len(rolls) : rolls[k] \in draw.vals

\* The state of main in the loop's first iteration when d.roll() has returned:
\* one die on the command line, parsed, and a vector roll can return for it.
InitRolled ==
    /\ argv \in {<<t>> : t \in ArmTokens}
    /\ aggregate_arg \in {a \in AggregateArgs :
                              a.given => Aggregate_from_str(a.text) # "Err"}
    /\ profile \in Profiles
    /\ pc = "rolled"
    /\ aggregate = IF aggregate_arg.given THEN Aggregate_from_str(aggregate_arg.text)
                   ELSE "None"
    /\ last = [called |-> TRUE, token |-> argv[1], res |-> Dice_from_str(argv[1])]
    /\ dice_coll = <<[count |-> last.res.count, sides |-> last.res.sides]>>
    /\ i = 1
    /\ stdout = <<>>
    /\ stderr = <<>>
    /\ \E rolls \in [1..Small(dice_coll[1].count) -> ArmValues] :
          /\ CanReturn(dice_coll[1], profile, rolls)
          /\ rolled = [done |-> FALSE, die |-> dice_coll[1],
                       out |-> [ok |-> TRUE, rolls |-> rolls, msg |-> ""],
                       fmt |-> FormatPanic("")]

\* The iteration from the return of roll on: the match and the println!.
MatchAndPrint ==
    /\ pc = "rolled"
    /\ MatchAndPrintln(rolled.die, rolled.out)

NextRolled ==
    \/ MatchAndPrint
    \/ LoopEnd

SpecArms == InitRolled /\ [][NextRolled]_vars

----------------------------------------------------------------------------
(* The notation and the arithmetic as the claims word them, defined apart     *)
(* from the parser's and the aggregate arms' own definitions                  *)

IsAsciiRun(s) == \A k \in 1..Len(s) : s[k] \in AsciiDigit

\* The token is, end to end, a possibly empty run of the digits 0-9, the letter
\* d, and a run of one or more of the digits 0-9.
HasShape(t) ==
    \E k \in 1..Len(t) :
        /\ t[k] = "d"
        /\ IsAsciiRun(SubSeq(t, 1, k - 1))
        /\ k < Len(t)
        /\ IsAsciiRun(Drop(t, k + 1))

\* The place of the first letter d of a token that has one.
SeparatorAt(t) == CHOOSE k \in 1..Len(t) : t[k] = "d" /\ \A j \in 1..(k - 1) : t[j] # "d"

CountText(t) == SubSeq(t, 1, SeparatorAt(t) - 1)

SidesText(t) == Drop(t, SeparatorAt(t) + 1)

\* The number a run of the digits 0-9 denotes, as a wide number.
RECURSIVE Denotes(_)
Denotes(s) ==
    IF s = <<>> THEN W(0)
    ELSE Only({WMulAdd(front, 10, DigitVal(s[Len(s)])) :
                  front \in {Denotes(SubSeq(s, 1, Len(s) - 1))}})

\* The sum of the elements as a wide number, never wrapped.
RECURSIVE ExactSum(_)
ExactSum(rolls) ==
    IF rolls = <<>> THEN W(0)
    ELSE Only({WAdd(rolls[1], rest) : rest \in {ExactSum(Tail(rolls))}})

RECURSIVE ShiftLeft(_, _)
ShiftLeft(w, k) ==
    IF k = 0 THEN w ELSE Only({ShiftLeft(twice, k - 1) : twice \in {WMulAdd(w, 2, 0)}})

WAbsDiff(a, b) == IF WLe(a, b) THEN WSub(b, a) ELSE WSub(a, b)

\* No f32 is nearer to total / n than f is: with everything multiplied by n and
\* scaled to whole numbers, f lies within half a unit of its last place of the
\* quotient (a quarter when f is a power of two and lies above the quotient,
\* where the f32 below it are twice as dense).
IsNearestF32(f, total, n) ==
    LET k      == IF f.e < 0 THEN 0 - f.e ELSE 0
        up     == IF f.e > 0 THEN f.e ELSE 0
        mine   == ShiftLeft(WMulAdd(W(f.m), n, 0), up)
        theirs == ShiftLeft(total, k)
        unit   == ShiftLeft(W(n), up)
        dense  == f.m = Pow2(MantissaBits - 1) /\ WLt(theirs, mine)
    IN  /\ WBitLen(total) + k <= 40
        /\ WLe(ShiftLeft(WAbsDiff(mine, theirs), IF dense THEN 2 ELSE 1), unit)

\* The values joined by single spaces.
RECURSIVE SpaceJoined(_)
SpaceJoined(rolls) ==
    IF rolls = <<>> THEN <<>>
    ELSE IF Len(rolls) = 1 THEN ToDecimal(rolls[1])
    ELSE ToDecimal(rolls[1]) \o <<" ">> \o SpaceJoined(Tail(rolls))

InRange(v, sides) == WLe(W(1), v) /\ WLe(v, sides)

----------------------------------------------------------------------------
(* The claims *)

\* C1: a token <count>?d<sides> whose digit runs denote a count of at least 1
\* (or no count) and sides of at least 2, both within u32, parses to Ok with
\* that count (1 when the field is empty) and those sides.
C1_ValidTokenParses ==
    (/\ last.called
     /\ HasShape(last.token)
     /\ WLe(W(2), Denotes(SidesText(last.token)))
     /\ WLe(Denotes(SidesText(last.token)), U32Max)
     /\ \/ CountText(last.token) = <<>>
        \/ /\ WLe(W(1), Denotes(CountText(last.token)))
           /\ WLe(Denotes(CountText(last.token)), U32Max))
    => last.res = Ok(IF CountText(last.token) = <<>> THEN W(1)
                     ELSE Denotes(CountText(last.token)),
                     Denotes(SidesText(last.token)))

\* C1's case: "d120" has been parsed to {count 1, sides 120}.
C1_Witness ==
    /\ last.called
    /\ last.token = <<"d", "1", "2", "0">>
    /\ last.res = Ok(W(1), W(120))

\* C2: a token that is not, end to end, digits 0-9, one d, digits 0-9 gets an
\* Err from Dice::from_str, never Ok and never a panic.
C2_OffGrammarIsErr ==
    (last.called /\ ~HasShape(last.token)) => last.res.kind = "Err"

\* C3: a token of the grammar whose sides are below 2 gets an Err from
\* Dice::from_str; no descriptor with sides below 2 is returned and nothing
\* panics.
C3_SidesBelowTwoIsErr ==
    /\ (last.called /\ HasShape(last.token)
            /\ WLt(Denotes(SidesText(last.token)), W(2)))
        => last.res.kind = "Err"
    /\ (last.called /\ last.res.kind = "Ok") => WLe(W(2), last.res.sides)

\* C4: a token whose count field is a run of digits denoting zero gets an Err
\* from Dice::from_str, and every descriptor from_str returns has count >= 1.
C4_ZeroCountRejected ==
    /\ (/\ last.called
        /\ \E k \in 2..Len(last.token) :
              /\ last.token[k] = "d"
              /\ \A j \in 1..(k - 1) : last.token[j] = "0")
        => last.res.kind = "Err"
    /\ (last.called /\ last.res.kind = "Ok") => WLe(W(1), last.res.count)

\* C4's case: "00d6" has been parsed and rejected with an error value.
C4_Witness ==
    /\ last.called
    /\ last.token = <<"0", "0", "d", "6">>
    /\ last.res.kind = "Err"

\* C5: when the count or the sides of a token of the grammar denote more than
\* 4294967295, Dice::from_str returns an Err; neither overflow panics.
C5_OverflowIsErr ==
    (/\ last.called
     /\ HasShape(last.token)
     /\ \/ WLt(U32Max, Denotes(CountText(last.token)))
        \/ WLt(U32Max, Denotes(SidesText(last.token))))
    => last.res.kind = "Err"

\* C6: Dice::roll on a descriptor from_str produced completes and returns
\* exactly count values, each between 1 and sides.
C6_RollInBounds ==
    rolled.done =>
        /\ rolled.out.ok
        /\ W(Len(rolled.out.rolls)) = rolled.die.count
        /\ \A k \in 1..Len(rolled.out.rolls) : InRange(rolled.out.rolls[k], rolled.die.sides)

\* C7: for the rolls of an accepted descriptor, the value printed for Sum is
\* the exact sum, for Max the largest element and for Min the smallest, and
\* Max and Min never fail on an empty sequence.
C7_SumMaxMinExact ==
    (rolled.done /\ rolled.out.ok) =>
        LET rolls == rolled.out.rolls
        IN  /\ aggregate = "Sum" => rolled.fmt = Formatted(ToDecimal(ExactSum(rolls)))
            /\ aggregate = "Max" =>
                  /\ rolled.fmt.kind = "text"
                  /\ \E k \in 1..Len(rolls) : rolled.fmt.text = ToDecimal(rolls[k])
                  /\ \A k \in 1..Len(rolls) : WLe(rolls[k], Denotes(rolled.fmt.text))
            /\ aggregate = "Min" =>
                  /\ rolled.fmt.kind = "text"
                  /\ \E k \in 1..Len(rolls) : rolled.fmt.text = ToDecimal(rolls[k])
                  /\ \A k \in 1..Len(rolls) : WLe(Denotes(rolled.fmt.text), rolls[k])

\* C8: with Avg, the value printed is the real-valued mean of the rolls, their
\* sum divided by their count without truncation: the floating-point number
\* printed is one nearest to the exact quotient.
C8_AvgIsMean ==
    (rolled.done /\ rolled.out.ok /\ aggregate = "Avg") =>
        /\ rolled.fmt.kind = "f32"
        /\ IsNearestF32(rolled.fmt.f32, ExactSum(rolled.out.rolls), Len(rolled.out.rolls))

\* C9: if any token of the batch fails to parse, no die is rolled and no line
\* is printed for any token, the valid ones before the bad one included: every
\* token is parsed before the first roll.
C9_NoRollInBadBatch ==
    /\ (\E k \in 1..Len(argv) : Dice_from_str(argv[k]).kind # "Ok")
          => (stdout = <<>> /\ ~rolled.done)
    /\ (rolled.done \/ stdout # <<>>) => Len(dice_coll) = Len(argv)

\* C9's case: the valid "2d4" comes before "bad", the run has ended on the
\* parse failure of "bad", and nothing was rolled or printed.
C9_Witness ==
    /\ argv = <<<<"2", "d", "4">>, <<"b", "a", "d">>>>
    /\ pc = "exit"
    /\ last.token = <<"b", "a", "d">>
    /\ dice_coll = <<[count |-> W(2), sides |-> W(4)]>>
    /\ stdout = <<>>

\* C10: for valid tokens main prints one line per die in token order, each the
\* descriptor as <count>d<sides>, a space and the result: without an aggregate
\* the rolled values joined by single spaces, with sum the total.
C10_LinePerDie ==
    /\ pc = "done" => Len(stdout) = Len(argv)
    /\ (rolled.done /\ rolled.out.ok /\ aggregate \in {"None", "Sum"}) =>
          /\ Len(stdout) = i - 1
          /\ i - 1 \in 1..Len(dice_coll)
          /\ rolled.die = dice_coll[i - 1]
          /\ stdout[i - 1].text =
                Dice_fmt(rolled.die) \o <<" ">> \o
                    (IF aggregate = "None" THEN SpaceJoined(rolled.out.rolls)
                     ELSE ToDecimal(ExactSum(rolled.out.rolls)))

====
